---- MODULE Spec2Model ----
(***************************************************************************)
(* Seat inventory of the Cameroon bus booking API (src/main.py).           *)
(*                                                                         *)
(* One trip document and the reservation collection are the shared         *)
(* storage.  Every HTTP handler is a sequence of storage accesses; each    *)
(* access (find_one, update_one, create_document) is one atomic step of    *)
(* the calling request, and requests of different callers interleave       *)
(* between those steps.  Time is counted in whole minutes; lock expiry     *)
(* instants are stored as ISO-8601 strings of timezone-aware datetimes,    *)
(* whose isoformat/fromisoformat round trip is exact, so an instant is     *)
(* represented by its minute count.                                        *)
(*                                                                         *)
(* Three specifications run the same actions:                              *)
(*   Spec          two concurrent callers, any interleaving of their       *)
(*                 storage accesses and of the clock;                      *)
(*   SpecSeq       one caller issuing one request after the other, the     *)
(*                 clock free to advance inside a request;                 *)
(*   SpecScenario  one caller working through a fixed script of requests.  *)
(* The response variable holds what the last step answered, if it ended a  *)
(* handler.                                                                *)
(***************************************************************************)
EXTENDS Integers, Sequences, FiniteSets, TLC

\* ---------------------------------------------------------------- constants
SEAT_COUNT == 68
LOCK_DURATION_MINUTES == 10
DEFAULT_PRIX == 8000
OTHER_PRIX == 5000

\* ------------------------------------------------------------------- bounds
MaxTime == 20
MaxLocks == 2
MaxRes == 2
SeqMaxTime == 15
SeqMaxLocks == 4

Procs == {"p1", "p2"}
\* the caller of the one-at-a-time runs
Caller == "p1"
\* prices a route configuration may carry (8000 is also the default)
Prices == {DEFAULT_PRIX, OTHER_PRIX}
\* concurrent runs: no active route matches, the trip gets the default price
ConcPrices == {DEFAULT_PRIX}
\* external order references of payment confirmations
Orders == {"o1", "o2"}
SeqOrders == {"o1"}
\* clock advances between two storage accesses, in minutes: one reaches the
\* expiry instant of a lock taken before it exactly, two pass it
TickDeltas == {LOCK_DURATION_MINUTES}
SeqTickDeltas == {5}
\* seat lists of the requests issued by concurrent callers: they contend for
\* one seat
ConcSeatLists == {<<1>>}
\* seat lists of the requests issued one at a time
SeqSeatLists == {<<1, 2>>, <<2, 3>>, <<0>>, <<69>>, <<2, 69>>, <<1, 1>>}

VARIABLES now, trip, reservations, pc, req, snap, response, script

vars == <<now, trip, reservations, pc, req, snap, response, script>>

\* ------------------------------------------------------------------ helpers
InSeq(x, s) == \E i \in DOMAIN s : s[i] = x

Count(x, s) == Cardinality({i \in DOMAIN s : s[i] = x})

SeatSet(s) == {s[i] : i \in DOMAIN s}

\* HTTP outcome of a handler: status code, reason, offending seat
Res(code, detail, seat) == [code |-> code, detail |-> detail, seat |-> seat]

\* the response a step sends, with the caller it goes to; none for a step that
\* does not end a handler
NoResponse == [proc |-> "none", code |-> 0, detail |-> "none", seat |-> 0]

Respond(p, r) == [proc |-> p, code |-> r.code, detail |-> r.detail, seat |-> r.seat]

\* Trip document (schemas.Trip); exists = FALSE until search creates it
NoTrip == [exists |-> FALSE, prix |-> 0, booked_seats |-> <<>>, locked_seats |-> <<>>]

NewTrip(prix) == [exists |-> TRUE, prix |-> prix, booked_seats |-> <<>>, locked_seats |-> <<>>]

NoReq == [op |-> "none", seats |-> <<>>, rid |-> 0, order |-> "none"]

\* a request's local copy of the trip document and its pending lock entries
NoSnap == [booked_seats |-> <<>>, locked_seats |-> <<>>, prix |-> 0, new_locks |-> <<>>]

SnapOf(t) == [booked_seats |-> t.booked_seats, locked_seats |-> t.locked_seats,
              prix |-> t.prix, new_locks |-> <<>>]

\* variant: the comparison is inverted, the expired entries are the ones kept
CleanupValidInverted(locked_list, t) == SelectSeq(locked_list, LAMBDA l : l.expires <= t)

\* _cleanup_expired_locks: the entries kept
CleanupValid(locked_list, t) == SelectSeq(locked_list, LAMBDA l : l.expires > t)

\* variant: any stored entry for the seat blocks it, expired or not
SeatLockedAnyEntry(s, locked_list, t) ==
    \E i \in DOMAIN locked_list : locked_list[i].seat = s

\* variant: a held seat is never reported as locked
SeatLockedNever(s, locked_list, t) == FALSE

\* lock_seats line 108: an unexpired entry of the local list holds seat s
SeatLocked(s, locked_list, t) ==
    \E i \in DOMAIN locked_list : locked_list[i].seat = s /\ locked_list[i].expires > t

\* variant: the lower limit of the seat range is not checked
InRangeNoLower(s) == s <= SEAT_COUNT

\* variant: the upper limit of the seat range is not checked
InRangeNoUpper(s) == s >= 1

\* lock_seats line 104
InRange(s) == s >= 1 /\ s <= SEAT_COUNT

\* lock_seats validation loop: the first failure in list order, or success
RECURSIVE LockCheck(_, _, _, _, _)
LockCheck(seats, i, booked, locked_list, t) ==
    IF i > Len(seats) THEN Res(200, "ok", 0)
    ELSE IF ~InRange(seats[i]) THEN Res(400, "invalid", seats[i])
    ELSE IF InSeq(seats[i], booked) THEN Res(409, "booked", seats[i])
    ELSE IF SeatLocked(seats[i], locked_list, t) THEN Res(409, "locked", seats[i])
    ELSE LockCheck(seats, i + 1, booked, locked_list, t)

\* variant: only the first requested seat gets a lock entry
NewLocksFirstOnly(seats, t) ==
    <<[seat |-> seats[1], expires |-> t + LOCK_DURATION_MINUTES]>>

\* lock_seats line 111
NewLocks(seats, t) ==
    [i \in DOMAIN seats |-> [seat |-> seats[i], expires |-> t + LOCK_DURATION_MINUTES]]

\* variant: any lock entry for the seat counts, expired or not
LockOkAnyEntry(s, locked_list, t) ==
    \E i \in DOMAIN locked_list : locked_list[i].seat = s

\* create_reservation line 138
LockOk(s, locked_list, t) ==
    \E i \in DOMAIN locked_list : locked_list[i].seat = s /\ locked_list[i].expires > t

\* create_reservation validation loop
RECURSIVE ReserveCheck(_, _, _, _, _)
ReserveCheck(seats, i, booked, locked_list, t) ==
    IF i > Len(seats) THEN Res(200, "ok", 0)
    ELSE IF InSeq(seats[i], booked) THEN Res(409, "booked", seats[i])
    ELSE IF ~LockOk(seats[i], locked_list, t) THEN Res(409, "expired", seats[i])
    ELSE ReserveCheck(seats, i + 1, booked, locked_list, t)

\* variant: the default price instead of the trip's price
TotalDefaultPrix(seats, prix) == Len(seats) * DEFAULT_PRIX

\* create_reservation line 142
Total(seats, prix) == Len(seats) * prix

\* Reservation document as create_reservation stores it, under the identifier
\* the storage layer gives it
NewReservation(id, seats, total) ==
    [id |-> id, seats |-> seats, montant_total |-> total, statut |-> "pending",
     paypal_order_id |-> "none", ticket_no |-> <<>>, paid_at |-> -1]

\* variant: the booking write stores nothing
AddToSetNothing(list, seats) == list

\* MongoDB $addToSet with $each: append each value not yet in the array
RECURSIVE AddToSet(_, _)
AddToSet(list, seats) ==
    IF seats = <<>> THEN list
    ELSE AddToSet(IF InSeq(Head(seats), list) THEN list ELSE Append(list, Head(seats)),
                  Tail(seats))

\* variant: the lock entries of the booked seats are left in place
PullNothing(locked_list, seats) == locked_list

\* MongoDB $pull {seat: {$in: seats}}
Pull(locked_list, seats) == SelectSeq(locked_list, LAMBDA l : ~InSeq(l.seat, seats))

\* last six characters of the reservation id, upper-cased; ids are hexadecimal
\* strings, so the suffix is the id modulo 16^6
IdSuffix(rid) == rid % (16 ^ 6)

\* identifiers the storage layer may give to new documents: unique, otherwise
\* arbitrary; two of these agree in their last six digits
Ids == {1, 2, 16 ^ 6 + 1}

\* the identifier of the next document when a single server numbers them from 1
NextId == Len(reservations) + 1

\* paypal_capture line 180: CBB-<suffix>-<unix seconds>
TicketNo(rid, t) == <<IdSuffix(rid), t * 60>>

\* variant: the paid check is inverted
AlreadyPaidInverted(reservation) == reservation.statut # "paid"

\* variant: the paid check is missing
AlreadyPaidNever(reservation) == FALSE

\* paypal_capture line 169
AlreadyPaid(reservation) == reservation.statut = "paid"

\* paypal_capture line 183
MarkPaid(reservation, rid, order, t) ==
    [reservation EXCEPT !.statut = "paid", !.paypal_order_id = order,
                        !.ticket_no = TicketNo(rid, t), !.paid_at = t]

\* -------------------------------------------------------------------- state
Init ==
    /\ now = 0
    /\ trip = NoTrip
    /\ reservations = <<>>
    /\ pc = [p \in Procs |-> "idle"]
    /\ req = [p \in Procs |-> NoReq]
    /\ snap = [p \in Procs |-> NoSnap]
    /\ response = NoResponse
    /\ script = <<>>

\* a handler returns: the request's locals are dropped, its response sent
Return(p, r) ==
    /\ pc' = [pc EXCEPT ![p] = "idle"]
    /\ req' = [req EXCEPT ![p] = NoReq]
    /\ snap' = [snap EXCEPT ![p] = NoSnap]
    /\ response' = Respond(p, r)

\* a request arrives and has made its first storage access
Begin(p, r, s, label) ==
    /\ pc' = [pc EXCEPT ![p] = label]
    /\ req' = [req EXCEPT ![p] = r]
    /\ snap' = [snap EXCEPT ![p] = s]
    /\ response' = NoResponse

Goto(p, label) ==
    /\ pc' = [pc EXCEPT ![p] = label]
    /\ req' = req
    /\ response' = NoResponse

\* ------------------------------------------------------------------ actions
\* search_or_create_trip, lines 54-73: find the trip or create it with the
\* route's price, then read it
Search(p, prix) ==
    /\ pc[p] = "idle"
    /\ trip' = IF trip.exists THEN trip ELSE NewTrip(prix)
    /\ Begin(p, [NoReq EXCEPT !.op = "search"], SnapOf(trip'), "cleanup")
    /\ UNCHANGED <<now, reservations>>

\* get_trip, lock_seats, create_reservation: the opening find_one and its 404
FindTrip(p, op, seats) ==
    /\ pc[p] = "idle"
    /\ IF trip.exists
       THEN Begin(p, [NoReq EXCEPT !.op = op, !.seats = seats], SnapOf(trip), "cleanup")
       ELSE Return(p, Res(404, "trip_not_found", 0))
    /\ UNCHANGED <<now, trip, reservations>>

GetTrip(p) == FindTrip(p, "get", <<>>)

LockSeats(p, seats) == FindTrip(p, "lock", seats)

CreateReservation(p, seats) == FindTrip(p, "reserve", seats)

\* _cleanup_expired_locks: filters the local copy at the current time and
\* overwrites the stored list with it when an entry was dropped
CleanupExpiredLocks(p) ==
    /\ pc[p] = "cleanup"
    /\ LET valid == CleanupValid(snap[p].locked_seats, now) IN
        /\ trip' = IF Len(valid) # Len(snap[p].locked_seats)
                   THEN [trip EXCEPT !.locked_seats = valid]
                   ELSE trip
        /\ IF req[p].op \in {"search", "get"}
           THEN Return(p, Res(200, "trip", 0))
           ELSE /\ snap' = [snap EXCEPT ![p].locked_seats = valid]
                /\ Goto(p, IF req[p].op = "lock" THEN "lk_validate" ELSE "rs_validate")
    /\ UNCHANGED <<now, reservations>>

\* lock_seats lines 98-111: validation against the local copy
LockValidate(p) ==
    /\ pc[p] = "lk_validate"
    /\ LET r == LockCheck(req[p].seats, 1, snap[p].booked_seats, snap[p].locked_seats, now) IN
        IF r.code = 200
        THEN /\ snap' = [snap EXCEPT ![p].new_locks = NewLocks(req[p].seats, now)]
             /\ Goto(p, "lk_push")
        ELSE Return(p, r)
    /\ UNCHANGED <<now, trip, reservations>>

\* lock_seats lines 112-115: $push of the new entries, then the response
LockPush(p, max) ==
    /\ pc[p] = "lk_push"
    /\ Len(trip.locked_seats) + Len(snap[p].new_locks) <= max
    /\ trip' = [trip EXCEPT !.locked_seats = trip.locked_seats \o snap[p].new_locks]
    /\ Return(p, Res(200, "acquired", 0))
    /\ UNCHANGED <<now, reservations>>

\* create_reservation lines 130-156: validation and insert
ReserveValidate(p, id) ==
    /\ pc[p] = "rs_validate"
    /\ LET r == ReserveCheck(req[p].seats, 1, snap[p].booked_seats, snap[p].locked_seats, now) IN
        IF r.code = 200
        THEN /\ Len(reservations) < MaxRes
             /\ \A n \in DOMAIN reservations : reservations[n].id # id
             /\ reservations' = Append(reservations,
                    NewReservation(id, req[p].seats, Total(req[p].seats, snap[p].prix)))
             /\ Return(p, Res(200, "created", 0))
        ELSE /\ reservations' = reservations
             /\ Return(p, r)
    /\ UNCHANGED <<now, trip>>

\* paypal_capture lines 165-174: find the reservation and its trip
PaypalCapture(p, rid, order) ==
    /\ pc[p] = "idle"
    /\ IF rid \notin DOMAIN reservations
       THEN Return(p, Res(404, "reservation_not_found", 0))
       ELSE IF AlreadyPaid(reservations[rid])
       THEN Return(p, Res(200, "already_paid", 0))
       ELSE Begin(p, [op |-> "capture", seats |-> reservations[rid].seats,
                      rid |-> rid, order |-> order], NoSnap, "cp_book")
    /\ UNCHANGED <<now, trip, reservations>>

\* paypal_capture line 178
CaptureBook(p) ==
    /\ pc[p] = "cp_book"
    /\ trip' = [trip EXCEPT !.booked_seats = AddToSet(trip.booked_seats, req[p].seats)]
    /\ Goto(p, "cp_pay")
    /\ UNCHANGED <<now, reservations, snap>>

\* paypal_capture lines 180-184
CapturePay(p) ==
    /\ pc[p] = "cp_pay"
    /\ reservations' = [reservations EXCEPT
            ![req[p].rid] = MarkPaid(reservations[req[p].rid], reservations[req[p].rid].id,
                                     req[p].order, now)]
    /\ Goto(p, "cp_pull")
    /\ UNCHANGED <<now, trip, snap>>

\* paypal_capture lines 187-190
CapturePull(p) ==
    /\ pc[p] = "cp_pull"
    /\ trip' = [trip EXCEPT !.locked_seats = Pull(trip.locked_seats, req[p].seats)]
    /\ Return(p, Res(200, "paid", 0))
    /\ UNCHANGED <<now, reservations>>

\* the clock
Tick(d, max) ==
    /\ now + d <= max
    /\ now' = now + d
    /\ response' = NoResponse
    /\ UNCHANGED <<trip, reservations, pc, req, snap>>

\* ------------------------------------------------- concurrent callers (Spec)
Next ==
    \/ \E d \in TickDeltas : Tick(d, MaxTime) /\ UNCHANGED script
    \/ \E p \in Procs, prix \in ConcPrices : Search(p, prix) /\ UNCHANGED script
    \/ \E p \in Procs : GetTrip(p) /\ UNCHANGED script
    \/ \E p \in Procs, seats \in ConcSeatLists : LockSeats(p, seats) /\ UNCHANGED script
    \/ \E p \in Procs, seats \in ConcSeatLists : CreateReservation(p, seats) /\ UNCHANGED script
    \/ \E p \in Procs, rid \in 1..MaxRes, order \in Orders :
            PaypalCapture(p, rid, order) /\ UNCHANGED script
    \/ \E p \in Procs : CleanupExpiredLocks(p) /\ UNCHANGED script
    \/ \E p \in Procs : LockValidate(p) /\ UNCHANGED script
    \/ \E p \in Procs : LockPush(p, MaxLocks) /\ UNCHANGED script
    \/ \E p \in Procs : ReserveValidate(p, NextId) /\ UNCHANGED script
    \/ \E p \in Procs : CaptureBook(p) /\ UNCHANGED script
    \/ \E p \in Procs : CapturePay(p) /\ UNCHANGED script
    \/ \E p \in Procs : CapturePull(p) /\ UNCHANGED script

Spec == Init /\ [][Next]_vars

\* --------------------------------------- one caller at a time (SpecSeq)
\* A single caller issues one request after the other; the clock may advance
\* between any two of its storage accesses.
NextSeq ==
    \/ \E d \in SeqTickDeltas : Tick(d, SeqMaxTime) /\ UNCHANGED script
    \/ \E prix \in Prices : Search(Caller, prix) /\ UNCHANGED script
    \/ GetTrip(Caller) /\ UNCHANGED script
    \/ \E seats \in SeqSeatLists : LockSeats(Caller, seats) /\ UNCHANGED script
    \/ \E seats \in SeqSeatLists : CreateReservation(Caller, seats) /\ UNCHANGED script
    \/ \E rid \in 1..MaxRes, order \in SeqOrders :
            PaypalCapture(Caller, rid, order) /\ UNCHANGED script
    \/ CleanupExpiredLocks(Caller) /\ UNCHANGED script
    \/ LockValidate(Caller) /\ UNCHANGED script
    \/ LockPush(Caller, SeqMaxLocks) /\ UNCHANGED script
    \/ ReserveValidate(Caller, NextId) /\ UNCHANGED script
    \/ CaptureBook(Caller) /\ UNCHANGED script
    \/ CapturePay(Caller) /\ UNCHANGED script
    \/ CapturePull(Caller) /\ UNCHANGED script

SpecSeq == Init /\ [][NextSeq]_vars

\* ------------------------------------------- scripted caller (SpecScenario)
\* The single caller works through the script, one entry per request or clock
\* advance, each request running to its response before the next entry.
Entry(op, seats, d) == [op |-> op, seats |-> seats, d |-> d]

Scenario ==
    << Entry("search", <<>>, 0),
       Entry("lock", <<1, 2>>, 0),
       Entry("tick", <<>>, 1),
       Entry("lock", <<2, 3>>, 0),
       Entry("tick", <<>>, LOCK_DURATION_MINUTES),
       Entry("reserve", <<1, 2>>, 0),
       Entry("lock", <<1, 2>>, 0),
       Entry("reserve", <<1, 2>>, 0),
       Entry("capture", <<>>, 0) >>

ScenarioStarts == 3

InitScenario ==
    /\ now \in 0..ScenarioStarts
    /\ trip = NoTrip
    /\ reservations = <<>>
    /\ pc = [p \in Procs |-> "idle"]
    /\ req = [p \in Procs |-> NoReq]
    /\ snap = [p \in Procs |-> NoSnap]
    /\ response = NoResponse
    /\ script = Scenario

Scripted(op) ==
    /\ script # <<>>
    /\ Head(script).op = op
    /\ script' = Tail(script)

NextScenario ==
    \/ Scripted("tick") /\ pc[Caller] = "idle" /\ Tick(Head(script).d, now + Head(script).d)
    \/ Scripted("search") /\ \E prix \in Prices : Search(Caller, prix)
    \/ Scripted("lock") /\ LockSeats(Caller, Head(script).seats)
    \/ Scripted("reserve") /\ CreateReservation(Caller, Head(script).seats)
    \/ Scripted("capture") /\ \E order \in SeqOrders :
            PaypalCapture(Caller, Len(reservations), order)
    \/ CleanupExpiredLocks(Caller) /\ UNCHANGED script
    \/ LockValidate(Caller) /\ UNCHANGED script
    \/ LockPush(Caller, SeqMaxLocks) /\ UNCHANGED script
    \/ ReserveValidate(Caller, NextId) /\ UNCHANGED script
    \/ CaptureBook(Caller) /\ UNCHANGED script
    \/ CapturePay(Caller) /\ UNCHANGED script
    \/ CapturePull(Caller) /\ UNCHANGED script

SpecScenario == InitScenario /\ [][NextScenario]_vars

\* ------------------------------- arbitrary document identifiers (SpecIds)
\* One caller books single seats; the storage layer gives each new reservation
\* any identifier not yet in use.
IdSeatLists == {<<1>>, <<2>>}

NextIds ==
    \/ \E d \in SeqTickDeltas : Tick(d, SeqMaxTime) /\ UNCHANGED script
    \/ \E prix \in ConcPrices : Search(Caller, prix) /\ UNCHANGED script
    \/ GetTrip(Caller) /\ UNCHANGED script
    \/ \E seats \in IdSeatLists : LockSeats(Caller, seats) /\ UNCHANGED script
    \/ \E seats \in IdSeatLists : CreateReservation(Caller, seats) /\ UNCHANGED script
    \/ \E rid \in 1..MaxRes, order \in SeqOrders :
            PaypalCapture(Caller, rid, order) /\ UNCHANGED script
    \/ CleanupExpiredLocks(Caller) /\ UNCHANGED script
    \/ LockValidate(Caller) /\ UNCHANGED script
    \/ LockPush(Caller, SeqMaxLocks) /\ UNCHANGED script
    \/ \E id \in Ids : ReserveValidate(Caller, id) /\ UNCHANGED script
    \/ CaptureBook(Caller) /\ UNCHANGED script
    \/ CapturePay(Caller) /\ UNCHANGED script
    \/ CapturePull(Caller) /\ UNCHANGED script

SpecIds == Init /\ [][NextIds]_vars

\* =================================================================== claims
Paid(r) == reservations[r].statut = "paid"

\* seats held by a stored lock entry that has not expired at time t
UnexpiredSeats(locked_list, t) ==
    {locked_list[i].seat : i \in {j \in DOMAIN locked_list : locked_list[j].expires > t}}

\* C1: no seat is ever sold twice: no two distinct paid reservations of the
\* trip have a seat number in common.
C1_NoSeatSoldTwice ==
    \A r1, r2 \in DOMAIN reservations :
        (r1 # r2 /\ Paid(r1) /\ Paid(r2))
            => SeatSet(reservations[r1].seats) \cap SeatSet(reservations[r2].seats) = {}

\* C2: in every state, between any two storage writes, the booked seats are
\* disjoint from the seats that have a lock entry with expires > now.
C2_BookedDisjointFromLocks ==
    SeatSet(trip.booked_seats) \cap UnexpiredSeats(trip.locked_seats, now) = {}

\* C3: of two concurrent lock_seats calls that request a common seat at most
\* one succeeds.  A call at "lk_push" has passed validation; all it still
\* does is the unconditional $push and the 200 response, so it succeeds.
C3_AtMostOneAcquireSucceeds ==
    \A p, q \in Procs :
        (p # q /\ pc[p] = "lk_push" /\ pc[q] = "lk_push")
            => SeatSet(req[p].seats) \cap SeatSet(req[q].seats) = {}

\* an entry of the stored lock list for one of the seats, with expires < t
ExpiredEntryFor(seats, t) ==
    \E i \in DOMAIN trip.locked_seats :
        /\ InSeq(trip.locked_seats[i].seat, seats)
        /\ trip.locked_seats[i].expires < t

\* C4: an expired lock never blocks acquisition.  When lock_seats validates
\* at time now a request whose seats are all in range, none of them booked,
\* and every stored lock entry for them has expires < now, the request
\* passes validation (and goes on to push its locks), whether the expired
\* entries are still stored or were already cleaned.
C4_ExpiredLockNeverBlocks ==
    [][(/\ pc[Caller] = "lk_validate"
        /\ pc'[Caller] # "lk_validate"
        /\ \A i \in DOMAIN req[Caller].seats :
              /\ req[Caller].seats[i] \in 1..SEAT_COUNT
              /\ ~InSeq(req[Caller].seats[i], trip.booked_seats)
        /\ \A i \in DOMAIN trip.locked_seats :
              InSeq(trip.locked_seats[i].seat, req[Caller].seats)
                  => trip.locked_seats[i].expires < now)
       => pc'[Caller] = "lk_push"]_vars

\* C4 witness: a request has passed validation while an entry for one of its
\* seats, expired before the validation instant, is still stored.
C4_Witness ==
    /\ pc[Caller] = "lk_push"
    /\ ExpiredEntryFor(req[Caller].seats,
                       snap[Caller].new_locks[1].expires - LOCK_DURATION_MINUTES)

\* C5: paypal_capture is idempotent.  A call for a reservation that is
\* already paid, with the order reference stored on it, answers already_paid
\* and changes neither the reservation documents nor the trip, and each seat
\* of the reservation occurs exactly once in booked_seats.
C5_ConfirmIdempotent ==
    [][\A p \in Procs, rid \in DOMAIN reservations :
          (/\ Paid(rid)
           /\ PaypalCapture(p, rid, reservations[rid].paypal_order_id))
          => /\ pc'[p] = "idle"
             /\ response' = Respond(p, Res(200, "already_paid", 0))
             /\ reservations' = reservations
             /\ trip' = trip
             /\ \A i \in DOMAIN reservations[rid].seats :
                   Count(reservations[rid].seats[i], trip'.booked_seats) = 1]_vars

\* C5 witness: a second confirmation of a paid reservation was just answered.
C5_Witness ==
    /\ response.detail = "already_paid"
    /\ \E rid \in DOMAIN reservations :
          /\ Paid(rid)
          /\ \A i \in DOMAIN reservations[rid].seats :
                InSeq(reservations[rid].seats[i], trip.booked_seats)

\* C6: a reservation is created with montant_total = number of requested
\* seats x the trip's price, and the amount never changes afterwards, in
\* particular not when the reservation is paid.
C6_TotalFrozen ==
    [][\A rid \in DOMAIN reservations' :
          IF rid \in DOMAIN reservations
          THEN /\ reservations'[rid].montant_total = reservations[rid].montant_total
               /\ reservations'[rid].seats = reservations[rid].seats
          ELSE reservations'[rid].montant_total
                   = Len(reservations'[rid].seats) * trip.prix]_vars

\* C6 witness: a paid two-seat reservation on a trip priced 8000 owes 16000.
C6_Witness ==
    \E rid \in DOMAIN reservations :
        /\ Paid(rid)
        /\ trip.prix = 8000
        /\ Len(reservations[rid].seats) = 2
        /\ reservations[rid].montant_total = 16000

\* the request of script entry n has just been answered
Answered(n) == Len(script) = Len(Scenario) - n /\ response.proc = Caller

LockEntry(seat, expires) == [seat |-> seat, expires |-> expires]

\* C7: on a fresh trip of 68 seats, with the 10 minute hold: lock_seats([1,2])
\* at t succeeds; lock_seats([2,3]) at t+1 fails on seat 2 being locked and
\* adds no entry; create_reservation([1,2]) at t+11 fails because the
\* selection expired; lock_seats([1,2]) at t+11 succeeds;
\* create_reservation([1,2]) then creates a pending reservation;
\* paypal_capture then books seats 1 and 2 and leaves no lock entry for them.
C7_Scenario ==
    /\ Answered(1) => trip = NewTrip(trip.prix) /\ SEAT_COUNT = 68
    /\ Answered(2) =>
          /\ response = Respond(Caller, Res(200, "acquired", 0))
          /\ trip.locked_seats = <<LockEntry(1, now + 10), LockEntry(2, now + 10)>>
    /\ Answered(4) =>
          /\ response = Respond(Caller, Res(409, "locked", 2))
          /\ trip.locked_seats = <<LockEntry(1, now + 9), LockEntry(2, now + 9)>>
    /\ Answered(6) =>
          /\ response.code = 409 /\ response.detail = "expired"
          /\ reservations = <<>>
    /\ Answered(7) =>
          /\ response = Respond(Caller, Res(200, "acquired", 0))
          /\ trip.locked_seats = <<LockEntry(1, now + 10), LockEntry(2, now + 10)>>
    /\ Answered(8) =>
          /\ response = Respond(Caller, Res(200, "created", 0))
          /\ Len(reservations) = 1
          /\ reservations[1].seats = <<1, 2>>
          /\ reservations[1].statut = "pending"
    /\ Answered(9) =>
          /\ response = Respond(Caller, Res(200, "paid", 0))
          /\ reservations[1].statut = "paid"
          /\ SeatSet(trip.booked_seats) = {1, 2}
          /\ \A i \in DOMAIN trip.locked_seats : trip.locked_seats[i].seat \notin {1, 2}

\* C7 witness: the script ran to its end and the payment was confirmed.
C7_Witness ==
    /\ script = <<>>
    /\ response = Respond(Caller, Res(200, "paid", 0))
    /\ trip.booked_seats = <<1, 2>>

\* positions of the out-of-range seats of a request
OutOfRange(seats) == {i \in DOMAIN seats : seats[i] \notin 1..SEAT_COUNT}

FirstOutOfRange(seats) ==
    CHOOSE i \in OutOfRange(seats) : \A j \in OutOfRange(seats) : i <= j

\* seat s is booked or held by a stored unexpired lock entry at time t
Taken(s, t) ==
    InSeq(s, trip.booked_seats) \/ s \in UnexpiredSeats(trip.locked_seats, t)

\* lock_seats validates the caller's request in this step
Validates == pc[Caller] = "lk_validate" /\ pc'[Caller] # "lk_validate"

\* C8 as claimed: whatever the trip's state, a lock_seats request whose list
\* contains a seat outside 1..68 fails with 400 (invalid seat) and adds no
\* lock entry.
C8_OutOfRangeInvalidInput ==
    [][(Validates /\ OutOfRange(req[Caller].seats) # {})
       => /\ response'.code = 400
          /\ response'.detail = "invalid"
          /\ trip'.locked_seats = trip.locked_seats]_vars

\* C8 amended: such a request always fails at validation and changes nothing
\* of the trip; it fails with 400 on its first out-of-range seat when no seat
\* before that one in the list is booked or held by an unexpired lock, and
\* with the 409 conflict of such an earlier seat otherwise.
C8_OutOfRangeFails ==
    [][(Validates /\ OutOfRange(req[Caller].seats) # {})
       => LET seats == req[Caller].seats
              k == FirstOutOfRange(seats)
          IN  /\ pc'[Caller] = "idle"
              /\ trip' = trip
              /\ IF \A i \in 1..(k - 1) : ~Taken(seats[i], now)
                 THEN response' = Respond(Caller, Res(400, "invalid", seats[k]))
                 ELSE /\ response'.code = 409
                      /\ response'.detail \in {"booked", "locked"}
                      /\ \E i \in 1..(k - 1) :
                            response'.seat = seats[i] /\ Taken(seats[i], now)]_vars

\* C8 witness: seat 69 was just refused as invalid on a trip that holds locks.
C8_Witness ==
    /\ response = Respond(Caller, Res(400, "invalid", 69))
    /\ trip.locked_seats # <<>>

\* C9: lock_seats is all-or-nothing.  A request with a seat out of range,
\* booked or held by an unexpired lock fails at validation and adds no lock
\* entry; any other request passes, and its push appends to the stored list
\* exactly one entry (seat, validation time + 10 minutes) per requested seat,
\* in request order; no other step adds a lock entry.
C9_AllOrNothing ==
    [][LET seats == req[Caller].seats IN
       /\ Validates =>
             IF \E i \in DOMAIN seats : seats[i] \notin 1..SEAT_COUNT \/ Taken(seats[i], now)
             THEN /\ pc'[Caller] = "idle"
                  /\ response'.code \in {400, 409}
                  /\ trip' = trip
             ELSE /\ pc'[Caller] = "lk_push"
                  /\ trip' = trip
                  /\ Len(snap'[Caller].new_locks) = Len(seats)
                  /\ \A i \in DOMAIN seats :
                        snap'[Caller].new_locks[i]
                            = LockEntry(seats[i], now + LOCK_DURATION_MINUTES)
       /\ (pc[Caller] = "lk_push" /\ pc'[Caller] # "lk_push") =>
             /\ response' = Respond(Caller, Res(200, "acquired", 0))
             /\ trip'.booked_seats = trip.booked_seats
             /\ trip'.locked_seats = trip.locked_seats \o snap[Caller].new_locks
       /\ pc[Caller] # "lk_push" => Len(trip'.locked_seats) <= Len(trip.locked_seats)]_vars

\* C9 witness: a two-seat request was just granted on top of two stored
\* entries of an earlier one.
C9_Witness ==
    /\ response = Respond(Caller, Res(200, "acquired", 0))
    /\ Len(trip.locked_seats) = 4

\* C10: in every state, also between the storage writes of paypal_capture,
\* every paid reservation has all its seats in booked_seats.
C10_PaidSeatsBooked ==
    \A rid \in DOMAIN reservations :
        Paid(rid) => \A i \in DOMAIN reservations[rid].seats :
                        InSeq(reservations[rid].seats[i], trip.booked_seats)

\* C10 witness: a reservation is already paid while its paypal_capture call
\* has not yet removed the locks.
C10_Witness ==
    \E p \in Procs :
        /\ pc[p] = "cp_pull"
        /\ Paid(req[p].rid)
        /\ trip.locked_seats # <<>>


\* --------------------------------------------------------------------- C11
\* the validating step of the caller's create_reservation
ReserveValidates == pc[Caller] = "rs_validate" /\ pc'[Caller] # "rs_validate"

\* seat s is stored as booked
IsBooked(s) == InSeq(s, trip.booked_seats)

\* positions of the requested seats that are booked, or that no unexpired
\* stored lock entry covers
Refused(seats) ==
    {i \in DOMAIN seats : IsBooked(seats[i])
                          \/ seats[i] \notin UnexpiredSeats(trip.locked_seats, now)}

FirstRefused(seats) ==
    CHOOSE i \in Refused(seats) : \A j \in Refused(seats) : i <= j

\* C11 as stated, the booked seats taking precedence: a request naming a booked
\* seat is answered SeatAlreadyBooked, one naming no booked seat but a seat
\* without an unexpired lock is answered LockExpired, and neither creates a
\* reservation.
C11_ErrorByKind ==
    [][ReserveValidates /\ Refused(req[Caller].seats) # {} =>
          /\ reservations' = reservations
          /\ response'.code = 409
          /\ response'.detail =
                IF \E i \in DOMAIN req[Caller].seats : IsBooked(req[Caller].seats[i])
                THEN "booked" ELSE "expired"]_vars

\* C11 (amended): create_reservation fails and creates no reservation when a
\* requested seat is booked or has no unexpired lock entry; the error is the
\* one of the first such seat in list order (SeatAlreadyBooked if that seat is
\* booked, LockExpired otherwise).  A reservation is only ever created by a
\* validating step that found every seat unbooked and under an unexpired lock.
C11_RevalidatesSeats ==
    [][/\ ReserveValidates =>
            LET seats == req[Caller].seats IN
            IF Refused(seats) # {}
            THEN /\ reservations' = reservations
                 /\ response' = Respond(Caller,
                        Res(409, IF IsBooked(seats[FirstRefused(seats)])
                                 THEN "booked" ELSE "expired",
                            seats[FirstRefused(seats)]))
            ELSE /\ reservations' = Append(reservations, reservations'[Len(reservations')])
                 /\ reservations'[Len(reservations')].seats = seats
                 /\ reservations'[Len(reservations')].statut = "pending"
                 /\ response'.code = 200
       /\ Len(reservations') # Len(reservations) =>
            /\ ReserveValidates
            /\ Refused(req[Caller].seats) = {}]_vars

\* a request naming a booked seat (2) was refused for its first seat's missing lock
C11_Witness ==
    /\ response.proc = Caller
    /\ response.code = 409
    /\ response.detail = "expired"
    /\ response.seat = 1
    /\ IsBooked(2)
    /\ ~IsBooked(1)


\* --------------------------------------------------------------------- C12
\* positions of the requested seats that an unexpired stored lock entry holds
Held(seats) ==
    {i \in DOMAIN seats : seats[i] \in UnexpiredSeats(trip.locked_seats, now)}

FirstHeld(seats) == CHOOSE i \in Held(seats) : \A j \in Held(seats) : i <= j

\* the lock entries that occur in either of two lists
EntriesOf(a, b) == {a[i] : i \in DOMAIN a} \cup {b[i] : i \in DOMAIN b}

\* C12: a lock cannot be extended.  A lock_seats request naming a seat held by
\* an unexpired lock entry fails and stores nothing, with SeatCurrentlyLocked
\* for that seat when its check is reached (no earlier seat of the list is out
\* of range or booked); no step adds an entry for a seat that an unexpired
\* entry holds; and the stored entries only ever change by removal of entries
\* and by the push of the new entries of a successful lock_seats, each expiring
\* at most LOCK_DURATION_MINUTES after the push, so that no entry's expiry is
\* ever rewritten.
C12_LockNotExtended ==
    [][/\ Validates /\ Held(req[Caller].seats) # {} =>
            LET seats == req[Caller].seats
                k == FirstHeld(seats) IN
            /\ pc'[Caller] = "idle"
            /\ response'.code \in {400, 409}
            /\ trip' = trip
            /\ (\A j \in 1..k : seats[j] \in 1..SEAT_COUNT /\ ~IsBooked(seats[j])) =>
                    response' = Respond(Caller, Res(409, "locked", seats[k]))
       /\ \A e \in EntriesOf(trip.locked_seats, trip'.locked_seats) :
            IF pc[Caller] = "lk_push" /\ pc'[Caller] = "idle"
            THEN /\ Count(e, trip'.locked_seats) =
                        Count(e, trip.locked_seats) + Count(e, snap[Caller].new_locks)
                 /\ InSeq(e, snap[Caller].new_locks) =>
                        /\ e.expires <= now + LOCK_DURATION_MINUTES
                        /\ e.seat \notin UnexpiredSeats(trip.locked_seats, now)
            ELSE Count(e, trip'.locked_seats) <= Count(e, trip.locked_seats)]_vars

\* a request for a seat under an unexpired lock was refused as locked
C12_Witness ==
    /\ response.proc = Caller
    /\ response.code = 409
    /\ response.detail = "locked"
    /\ response.seat \in UnexpiredSeats(trip.locked_seats, now)


\* --------------------------------------------------------------------- C13
\* C13: ticket numbers are unique: no two distinct paid reservations carry the
\* same ticket number.
C13_TicketsUnique ==
    \A r1, r2 \in DOMAIN reservations :
        r1 # r2 /\ Paid(r1) /\ Paid(r2) =>
            reservations[r1].ticket_no # reservations[r2].ticket_no


\* --------------------------------------------------------------------- C14
\* C14: a reservation is promoted to paid exactly once: once it is paid, no
\* step of any paypal_capture call, concurrent or repeated, with the same or
\* another order reference, changes its status, ticket number, paid timestamp
\* or order reference.
C14_PaidOnce ==
    [][\A r \in DOMAIN reservations :
            Paid(r) => /\ reservations'[r].statut = "paid"
                       /\ reservations'[r].ticket_no = reservations[r].ticket_no
                       /\ reservations'[r].paid_at = reservations[r].paid_at
                       /\ reservations'[r].paypal_order_id = reservations[r].paypal_order_id]_vars


\* --------------------------------------------------------------------- C15
\* C15: cleanup removes only expired entries.  Whatever the interleaving of a
\* cleanup with a concurrent lock_seats, a stored lock entry stays stored
\* for as long as it has not expired and its seat is not booked.
C15_UnexpiredLockKept ==
    [][\A i \in DOMAIN trip.locked_seats :
            (/\ trip.locked_seats[i].expires > now'
             /\ ~InSeq(trip.locked_seats[i].seat, trip'.booked_seats))
            => InSeq(trip.locked_seats[i], trip'.locked_seats)]_vars


\* --------------------------------------------------------------------- C16
\* a paypal_capture call for reservation r is under way
Capturing(r) ==
    \E p \in Procs : pc[p] \in {"cp_book", "cp_pay", "cp_pull"} /\ req[p].rid = r

\* C16: booking clears holds.  Once the paypal_capture that promoted a
\* reservation has completed, the trip stores no lock entry, expired or not,
\* for any seat of that reservation, whatever cleanup or lock_seats call
\* runs concurrently or later.
C16_BookingClearsHolds ==
    \A r \in DOMAIN reservations :
        Paid(r) /\ ~Capturing(r) =>
            \A i \in DOMAIN trip.locked_seats :
                ~InSeq(trip.locked_seats[i].seat, reservations[r].seats)


\* --------------------------------------------------------------------- C17
\* some stored lock entry for a seat of the list has expired, and no unexpired
\* entry holds any seat of the list
LocksLapsed(seats) ==
    /\ \E i \in DOMAIN trip.locked_seats :
            /\ InSeq(trip.locked_seats[i].seat, seats)
            /\ trip.locked_seats[i].expires <= now
    /\ \A i \in DOMAIN seats : seats[i] \notin UnexpiredSeats(trip.locked_seats, now)

\* C17: lock expiry does not invalidate a pending reservation.  A
\* reservation's status changes only in the paying step of a paypal_capture
\* for it, and then to paid; no paypal_capture is answered "already paid"
\* while no reservation is paid; and a paypal_capture that found its
\* reservation pending books every seat of it, marks it paid and answers with
\* the paid reservation, whatever lock entries the trip stores.
C17_PendingSurvivesExpiry ==
    [][/\ \A r \in DOMAIN reservations :
            reservations'[r].statut # reservations[r].statut =>
                /\ reservations'[r].statut = "paid"
                /\ \E p \in Procs : pc[p] = "cp_pay" /\ pc'[p] = "cp_pull" /\ req[p].rid = r
       /\ response'.detail = "already_paid" => \E r \in DOMAIN reservations : Paid(r)
       /\ \A p \in Procs :
            /\ pc[p] = "idle" /\ pc'[p] = "cp_book" =>
                    /\ req'[p].rid \in DOMAIN reservations
                    /\ reservations[req'[p].rid].statut = "pending"
            /\ pc[p] = "cp_book" /\ pc'[p] # "cp_book" =>
                    /\ pc'[p] = "cp_pay"
                    /\ \A i \in DOMAIN req[p].seats :
                            InSeq(req[p].seats[i], trip'.booked_seats)
            /\ pc[p] = "cp_pay" /\ pc'[p] # "cp_pay" =>
                    /\ pc'[p] = "cp_pull"
                    /\ reservations'[req[p].rid].statut = "paid"
            /\ pc[p] = "cp_pull" /\ pc'[p] # "cp_pull" =>
                    /\ response' = Respond(p, Res(200, "paid", 0))
                    /\ Paid(req[p].rid)
                    /\ \A i \in DOMAIN req[p].seats :
                            InSeq(req[p].seats[i], trip'.booked_seats)]_vars

\* a capture has booked and paid a reservation whose locks had all expired
C17_Witness ==
    \E p \in Procs :
        /\ pc[p] = "cp_pull"
        /\ Paid(req[p].rid)
        /\ LocksLapsed(req[p].seats)
        /\ \A i \in DOMAIN req[p].seats : InSeq(req[p].seats[i], trip.booked_seats)


\* --------------------------------------------------------------------- C18
\* C18: booked_seats only grows and stays within the seat range: no step
\* removes a booked seat, and every booked seat is a number in 1..SEAT_COUNT.
C18_BookedGrowsInRange ==
    [][/\ SeatSet(trip.booked_seats) \subseteq SeatSet(trip'.booked_seats)
       /\ SeatSet(trip'.booked_seats) \subseteq 1..SEAT_COUNT]_vars

\* seats were booked by two captures, after out-of-range seats had been asked for
C18_Witness ==
    /\ Cardinality(SeatSet(trip.booked_seats)) >= 3
    /\ \A r \in DOMAIN reservations : Paid(r)
    /\ Len(reservations) >= 2
    /\ response.detail = "paid"


\* --------------------------------------------------------------------- C19
\* a storage access of the caller's create_reservation request
ReserveStep ==
    /\ pc'[Caller] # pc[Caller]
    /\ req[Caller].op = "reserve" \/ req'[Caller].op = "reserve"

\* C19: create_reservation, succeeding or failing, changes no seat state
\* other than dropping expired lock entries: none of its steps changes
\* booked_seats, adds a lock entry, or removes a lock entry that has not
\* expired; in particular the locks of the reserved seats stay as they were.
C19_ReserveLeavesSeats ==
    [][ReserveStep =>
          /\ trip'.booked_seats = trip.booked_seats
          /\ \A e \in EntriesOf(trip.locked_seats, trip'.locked_seats) :
                /\ Count(e, trip'.locked_seats) <= Count(e, trip.locked_seats)
                /\ e.expires > now =>
                        Count(e, trip'.locked_seats) = Count(e, trip.locked_seats)]_vars

\* a reservation was created at minute 10 or later; the unexpired locks of its
\* seats are still stored and no expired entry is left
C19_Witness ==
    /\ response = Respond(Caller, Res(200, "created", 0))
    /\ \A i \in DOMAIN reservations[Len(reservations)].seats :
            reservations[Len(reservations)].seats[i] \in UnexpiredSeats(trip.locked_seats, now)
    /\ \A i \in DOMAIN trip.locked_seats : trip.locked_seats[i].expires > now
    /\ now >= LOCK_DURATION_MINUTES


\* --------------------------------------------------------------------- C20
\* C20: each seat has at most one lock entry that has not expired, after any
\* sequence of lock_seats requests, including requests that name the same seat
\* more than once.
C20_OneUnexpiredLockPerSeat ==
    \A i, j \in DOMAIN trip.locked_seats :
        (/\ trip.locked_seats[i].seat = trip.locked_seats[j].seat
         /\ trip.locked_seats[i].expires > now
         /\ trip.locked_seats[j].expires > now) => i = j

====
